---- MODULE Spec2Model ----
(***************************************************************************)
(* MatTimeSeriesImporter.launch (tvb.adapters.uploaders.                   *)
(* mat_timeseries_importer): a named array is read from a .mat file,       *)
(* optionally transposed and sliced, checked against the channel count of  *)
(* a connectivity or a sensor set, widened to (time, state, channel, mode) *)
(* and written to an H5 container; the index record mirrors the metadata.  *)
(* One launch is followed step by step; every exception that can leave a   *)
(* step is modelled, together with the except clause of launch.            *)
(***************************************************************************)
EXTENDS Integers, Sequences, FiniteSets, TLC

(***************************************************************************)
(* Bounds of the model.                                                    *)
(***************************************************************************)
\* largest axis length of an array held by the .mat file
MaxLen == 3

(***************************************************************************)
(* numpy arrays: a shape and a value for every index tuple (0-based).      *)
(***************************************************************************)
RECURSIVE IndexSet(_)
IndexSet(shape) ==
    IF shape = <<>> THEN {<<>>}
    ELSE {<<i>> \o r : i \in 0..(shape[1] - 1), r \in IndexSet(Tail(shape))}

Reverse(s) == [k \in 1..Len(s) |-> s[Len(s) + 1 - k]]

\* the array a .mat dataset holds: every element is told apart by its position
RECURSIVE Encode(_)
Encode(idx) == IF idx = <<>> THEN 0 ELSE 10 * Encode(SubSeq(idx, 1, Len(idx) - 1)) + idx[Len(idx)] + 1

MkArray(shape) == [shape |-> shape, val |-> [idx \in IndexSet(shape) |-> Encode(idx)]]

\* ndarray.T: all axes reversed
ArrayT(a) ==
    [shape |-> Reverse(a.shape),
     val   |-> [idx \in IndexSet(Reverse(a.shape)) |-> a.val[Reverse(idx)]]]

(***************************************************************************)
(* parse_slice: text in numpy syntax to a tuple of indices.  The text is a *)
(* sequence of one-character strings.                                      *)
(***************************************************************************)
Digits == {"0", "1", "2", "3", "4", "5", "6", "7", "8", "9"}

DigitVal(c) ==
    CASE c = "0" -> 0 [] c = "1" -> 1 [] c = "2" -> 2 [] c = "3" -> 3 [] c = "4" -> 4
      [] c = "5" -> 5 [] c = "6" -> 6 [] c = "7" -> 7 [] c = "8" -> 8 [] c = "9" -> 9

RECURSIVE Split(_, _)
Split(s, sep) ==
    IF \E i \in 1..Len(s) : s[i] = sep
    THEN LET i == CHOOSE k \in 1..Len(s) : s[k] = sep /\ \A j \in 1..(k - 1) : s[j] # sep
         IN  <<SubSeq(s, 1, i - 1)>> \o Split(SubSeq(s, i + 1, Len(s)), sep)
    ELSE <<s>>

RECURSIVE Strip(_)
Strip(s) ==
    IF s = <<>> THEN s
    ELSE IF s[1] = " " THEN Strip(Tail(s))
    ELSE IF s[Len(s)] = " " THEN Strip(SubSeq(s, 1, Len(s) - 1))
    ELSE s

RECURSIVE Num(_)
Num(ds) == IF ds = <<>> THEN 0 ELSE 10 * Num(SubSeq(ds, 1, Len(ds) - 1)) + DigitVal(ds[Len(ds)])

\* int(text)
ParseInt(text) ==
    LET s   == Strip(text)
        neg == s # <<>> /\ s[1] = "-"
        ds  == IF neg THEN Tail(s) ELSE s
    IN  IF ds # <<>> /\ \A k \in 1..Len(ds) : ds[k] \in Digits
        THEN [ok |-> TRUE, v |-> IF neg THEN 0 - Num(ds) ELSE Num(ds)]
        ELSE [ok |-> FALSE, v |-> 0]

\* one bound of a range: empty text is None (<<>>), otherwise an integer (<<v>>)
ParseBound(text) ==
    IF Strip(text) = <<>> THEN [ok |-> TRUE, v |-> <<>>]
    ELSE [ok |-> ParseInt(text).ok, v |-> <<ParseInt(text).v>>]

\* one comma-separated part: an index, a range with optional step, or an ellipsis
ParseDim(d) ==
    LET frags == Split(d, ":")
        b(k)  == IF k <= Len(frags) THEN ParseBound(frags[k]) ELSE [ok |-> TRUE, v |-> <<>>]
    IN  IF Strip(d) = <<".", ".", ".">>
        THEN [ok |-> TRUE, e |-> [kind |-> "ellipsis"]]
        ELSE IF Len(frags) = 1
        THEN [ok |-> ParseInt(d).ok, e |-> [kind |-> "int", i |-> ParseInt(d).v]]
        ELSE IF Len(frags) <= 3
        THEN [ok |-> b(1).ok /\ b(2).ok /\ b(3).ok,
              e  |-> [kind |-> "slice", start |-> b(1).v, stop |-> b(2).v, step |-> b(3).v]]
        ELSE [ok |-> FALSE, e |-> [kind |-> "ellipsis"]]

parse_slice(text) ==
    LET parts == Split(text, ",")
        dims  == [k \in 1..Len(parts) |-> ParseDim(parts[k])]
    IN  [ok    |-> \A k \in 1..Len(dims) : dims[k].ok,
         index |-> [k \in 1..Len(dims) |-> dims[k].e]]

(***************************************************************************)
(* data[index]: numpy basic indexing with integers, ranges and ellipsis.   *)
(***************************************************************************)
FullSlice == [kind |-> "slice", start |-> <<>>, stop |-> <<>>, step |-> <<>>]

\* slice.indices(n): the source positions a range selects on an axis of length n
SliceIndices(e, n) ==
    LET step  == IF e.step = <<>> THEN 1 ELSE e.step[1]
        lo    == IF step < 0 THEN 0 - 1 ELSE 0
        hi    == IF step < 0 THEN n - 1 ELSE n
        Adj(o, dflt) ==
            IF o = <<>> THEN dflt
            ELSE LET v == IF o[1] < 0 THEN o[1] + n ELSE o[1]
                 IN  IF v < lo THEN lo ELSE IF v > hi THEN hi ELSE v
        start == Adj(e.start, IF step < 0 THEN hi ELSE lo)
        stop  == Adj(e.stop, IF step < 0 THEN lo ELSE hi)
        len   == IF step > 0
                 THEN (IF start < stop THEN ((stop - start - 1) \div step) + 1 ELSE 0)
                 ELSE (IF stop < start THEN ((start - stop - 1) \div (0 - step)) + 1 ELSE 0)
    IN  [k \in 1..len |-> start + (k - 1) * step]

\* the index tuple with the ellipsis expanded and missing trailing axes filled
ExpandIndex(index, ndim) ==
    LET given == Cardinality({k \in 1..Len(index) : index[k].kind # "ellipsis"})
        fill  == [k \in 1..(ndim - given) |-> FullSlice]
    IN  IF \E k \in 1..Len(index) : index[k].kind = "ellipsis"
        THEN LET p == CHOOSE k \in 1..Len(index) : index[k].kind = "ellipsis"
             IN  SubSeq(index, 1, p - 1) \o fill \o SubSeq(index, p + 1, Len(index))
        ELSE index \o fill

NormInt(i, n) == IF i < 0 THEN i + n ELSE i

RECURSIVE KeptAxes(_, _)
KeptAxes(full, k) ==
    IF k > Len(full) THEN <<>>
    ELSE (IF full[k].kind = "slice" THEN <<k>> ELSE <<>>) \o KeptAxes(full, k + 1)

\* data[index]: exc is "" when the indexing succeeds
GetItem(a, index) ==
    LET ndim     == Len(a.shape)
        given    == Cardinality({k \in 1..Len(index) : index[k].kind # "ellipsis"})
        ellipses == Cardinality({k \in 1..Len(index) : index[k].kind = "ellipsis"})
        full     == ExpandIndex(index, ndim)
        kept     == KeptAxes(full, 1)
        sel(k)   == SliceIndices(full[k], a.shape[k])
        shape    == [j \in 1..Len(kept) |-> Len(sel(kept[j]))]
        src(idx) == [k \in 1..ndim |->
                        IF full[k].kind = "int" THEN NormInt(full[k].i, a.shape[k])
                        ELSE sel(k)[idx[CHOOSE j \in 1..Len(kept) : kept[j] = k] + 1]]
    IN  IF ellipses > 1 \/ given > ndim
        THEN [exc |-> "IndexError", arr |-> a]
        ELSE IF \E k \in 1..ndim : /\ full[k].kind = "int"
                                   /\ NormInt(full[k].i, a.shape[k]) \notin 0..(a.shape[k] - 1)
        THEN [exc |-> "IndexError", arr |-> a]
        ELSE IF \E k \in 1..ndim : /\ full[k].kind = "slice"
                                   /\ full[k].step = <<0>>
        THEN [exc |-> "ValueError", arr |-> a]
        ELSE [exc |-> "",
              arr |-> [shape |-> shape,
                       val   |-> [idx \in IndexSet(shape) |-> a.val[src(idx)]]]]

\* as Canonical, with both new axes appended at the end: data[:, :, newaxis, newaxis]
CanonicalTrailing(a) ==
    LET shape == <<a.shape[1], a.shape[2], 1, 1>> \o SubSeq(a.shape, 3, Len(a.shape))
    IN  [shape |-> shape,
         val   |-> [idx \in IndexSet(shape) |->
                      a.val[<<idx[1], idx[2]>> \o SubSeq(idx, 5, Len(idx))]]]

\* data[:, numpy.newaxis, :, numpy.newaxis] on an array of two or more axes
Canonical(a) ==
    LET rest  == SubSeq(a.shape, 3, Len(a.shape))
        shape == <<a.shape[1], 1, a.shape[2], 1>> \o rest
    IN  [shape |-> shape,
         val   |-> [idx \in IndexSet(shape) |->
                      a.val[<<idx[1], idx[3]>> \o SubSeq(idx, 5, Len(idx))]]]

(***************************************************************************)
(* Values: None / a value, exceptions, rationals, uuid.                    *)
(***************************************************************************)
None == <<>>
Some(v) == <<v>>

Exc(type, fmt, args, cause) == [type |-> type, fmt |-> fmt, args |-> args, cause |-> cause]
NoExc == Exc("", "", <<>>, None)

ParseException(what)  == Exc("ParseException", what, <<>>, None)
\* LaunchException(ex): the exception given becomes the message
LaunchException(ex)   == Exc("LaunchException", "%s", <<>>, Some(ex))
\* LaunchException(fmt % (a, b))
LaunchExceptionMsg(fmt, a, b) == Exc("LaunchException", fmt, <<a, b>>, None)
IndexError(what)      == Exc("IndexError", what, <<>>, None)
ValueError(what)      == Exc("ValueError", what, <<>>, None)
AttributeError(what)  == Exc("AttributeError", what, <<>>, None)
StorageError(what)    == Exc("StorageError", what, <<>>, None)

\* a float kept exact: num / den
Rat(n, d) == [num |-> n, den |-> d]
RatMulInt(i, r) == Rat(i * r.num, r.den)

\* uuid.UUID(hex)
UUID(hex) == [uuid |-> hex]

TS_REGION == "Region"
TS_EEG == "EEG"

(***************************************************************************)
(* The collaborators of the importer that the importer only calls.         *)
(***************************************************************************)
\* TimeSeriesRegion() / TimeSeriesEEG(): the trait defaults of a new time series
TimeSeries(type) ==
    [type               |-> type,
     title              |-> "Time Series",
     start_time         |-> 0,
     sample_period      |-> Rat(1, 1),
     sample_period_unit |-> "ms",
     sample_rate        |-> None,
     labels_ordering    |-> IF type = "TimeSeriesRegion"
                            THEN <<"Time", "State Variable", "Region", "Mode">>
                            ELSE <<"Time", "1", "EEG Sensor", "1">>,
     labels_dimensions  |-> <<>>]

\* TimeSeriesRegionIndex() / TimeSeriesEEGIndex(): a new index row with a fresh gid
TimeSeriesIndex(type, gid) ==
    [type |-> type, gid |-> gid,
     connectivity_gid |-> None, sensors_gid |-> None, has_surface_mapping |-> None,
     title |-> None, time_series_type |-> None, sample_period_unit |-> None,
     sample_period |-> None, sample_rate |-> None, labels_dimensions |-> None,
     labels_ordering |-> None, data_ndim |-> None,
     data_length_1d |-> None, data_length_2d |-> None,
     data_length_3d |-> None, data_length_4d |-> None]

\* TimeSeriesRegionH5(path) / TimeSeriesEEGH5(path): a container opened for writing
H5File(type, path_gid) ==
    [type |-> type, path_gid |-> path_gid, open |-> TRUE,
     connectivity |-> None, sensors |-> None, time |-> None, data |-> None,
     nr_dimensions |-> None, gid |-> None, sample_period |-> None,
     sample_period_unit |-> None, sample_rate |-> None, start_time |-> None,
     labels_ordering |-> None, labels_dimensions |-> None, title |-> None]

\* read_nested_mat_file(data_file, dataset_name, structure_path)
read_nested_mat_file(data_file, dataset_name, structure_path) ==
    IF dataset_name = data_file.name /\ structure_path = data_file.path
    THEN [exc |-> NoExc, data |-> Some(data_file.array)]
    ELSE [exc |-> ParseException("could not read dataset"), data |-> None]

\* prepare_array_shape_meta(shape): four slots, missing trailing ones unset
prepare_array_shape_meta(shape) ==
    [k \in 1..4 |-> IF k <= Len(shape) THEN Some(shape[k]) ELSE None]

\* json.dumps of a list of strings and of a mapping kept as (key, list) pairs
RECURSIVE JoinTokens(_)
JoinTokens(items) ==
    IF items = <<>> THEN <<>>
    ELSE IF Len(items) = 1 THEN items[1]
    ELSE items[1] \o <<",", " ">> \o JoinTokens(Tail(items))

JsonString(s) == <<"\"", s, "\"">>
JsonList(l) == <<"[">> \o JoinTokens([k \in 1..Len(l) |-> JsonString(l[k])]) \o <<"]">>
JsonDict(d) ==
    <<"{">> \o JoinTokens([k \in 1..Len(d) |->
                              JsonString(d[k][1]) \o <<":", " ">> \o JsonList(d[k][2])])
    \o <<"}">>

(***************************************************************************)
(* The inputs of a launch.                                                 *)
(***************************************************************************)
\* shapes of the array in the .mat file: matrices (an axis may be empty), one
\* matrix with more rows than any topology has channels, and arrays of three axes
InputShapes ==
    {<<t, c>> : t \in 0..MaxLen, c \in 0..MaxLen}
    \cup {<<MaxLen + 1, MaxLen>>}
    \cup {<<2, c, 2>> : c \in 2..MaxLen}

\* (dataset_name, structure_path) asked for; the file holds dataset "ts" at the top
Lookups == {<<"ts", "">>, <<"missing", "">>, <<"ts", "s.x">>}

SliceExprs ==
    {<<>>,
     <<"1", ":", "3", ",", ":">>,
     <<":", ",", "0", ":", "2">>,
     <<"0">>,
     <<"0", ":", "0">>,
     <<":", ":", "2">>,
     <<".", ".", ".", ",", " ", "1", ":">>,
     <<"9">>,
     <<"1", ":", "x">>}

SamplingRates == {100, 1000}

Connectivity(n, gid) == [kind |-> "Connectivity", number_of_regions |-> n, gid |-> gid]
Sensors(n, gid) == [kind |-> "Sensors", number_of_sensors |-> n, gid |-> gid]
NoTopology == [kind |-> "None"]

\* the stored connectivities and sensor sets a launch can be given, or nothing
Topologies ==
    {Connectivity(n, 100 + n) : n \in 2..MaxLen}
    \cup {Sensors(n, 200 + n) : n \in 2..MaxLen}
    \cup {NoTopology}

(***************************************************************************)
(* The two builders of ts_builder.                                         *)
(***************************************************************************)
Built(exc, ts, ts_idx, ts_h5) == [exc |-> exc, ts |-> ts, ts_idx |-> ts_idx, ts_h5 |-> ts_h5]

\* as create_region_ts, with the container opened before the channel check
create_region_ts_OpenFirst(data_shape, connectivity, new_gid, store_ok) ==
    LET ts_idx == [TimeSeriesIndex("TimeSeriesRegionIndex", new_gid) EXCEPT
                      !.has_surface_mapping = Some(TRUE)]
        ts_h5  == H5File("TimeSeriesRegionH5", new_gid)
    IN  IF "number_of_regions" \notin DOMAIN connectivity
        THEN Built(AttributeError("number_of_regions"), None, Some(ts_idx), Some(ts_h5))
        ELSE IF Len(data_shape) < 2
        THEN Built(IndexError("tuple index out of range"), None, Some(ts_idx), Some(ts_h5))
        ELSE IF connectivity.number_of_regions # data_shape[2]
        THEN Built(LaunchExceptionMsg("Data has %d channels but the connectivity has %d nodes",
                                      data_shape[2], connectivity.number_of_regions),
                   None, Some(ts_idx), Some(ts_h5))
        ELSE IF ~store_ok
        THEN Built(StorageError("connectivity.store"), None, Some(ts_idx), Some(ts_h5))
        ELSE Built(NoExc, Some(TimeSeries("TimeSeriesRegion")),
                   Some([ts_idx EXCEPT !.connectivity_gid = Some(connectivity.gid)]),
                   Some([ts_h5 EXCEPT !.connectivity = Some(UUID(connectivity.gid))]))

create_region_ts(data_shape, connectivity, new_gid, store_ok) ==
    LET ts_idx == [TimeSeriesIndex("TimeSeriesRegionIndex", new_gid) EXCEPT
                      !.connectivity_gid = Some(connectivity.gid),
                      !.has_surface_mapping = Some(TRUE)]
        ts_h5  == H5File("TimeSeriesRegionH5", new_gid)
    IN  IF "number_of_regions" \notin DOMAIN connectivity
        THEN Built(AttributeError("number_of_regions"), None, None, None)
        ELSE IF Len(data_shape) < 2
        THEN Built(IndexError("tuple index out of range"), None, None, None)
        ELSE IF connectivity.number_of_regions # data_shape[2]
        THEN Built(LaunchExceptionMsg("Data has %d channels but the connectivity has %d nodes",
                                      data_shape[2], connectivity.number_of_regions),
                   None, None, None)
        ELSE IF ~store_ok
        THEN Built(StorageError("connectivity.store"), None, Some(ts_idx), Some(ts_h5))
        ELSE Built(NoExc, Some(TimeSeries("TimeSeriesRegion")), Some(ts_idx),
                   Some([ts_h5 EXCEPT !.connectivity = Some(UUID(connectivity.gid))]))

create_eeg_ts(data_shape, sensors, new_gid, store_ok) ==
    LET ts_idx == [TimeSeriesIndex("TimeSeriesEEGIndex", new_gid) EXCEPT
                      !.sensors_gid = Some(sensors.gid)]
        ts_h5  == H5File("TimeSeriesEEGH5", new_gid)
    IN  IF "number_of_sensors" \notin DOMAIN sensors
        THEN Built(AttributeError("number_of_sensors"), None, None, None)
        ELSE IF Len(data_shape) < 2
        THEN Built(IndexError("tuple index out of range"), None, None, None)
        ELSE IF sensors.number_of_sensors # data_shape[2]
        THEN Built(LaunchExceptionMsg("Data has %d channels but the sensors have %d",
                                      data_shape[2], sensors.number_of_sensors),
                   None, None, None)
        ELSE IF ~store_ok
        THEN Built(StorageError("sensors.store"), None, Some(ts_idx), Some(ts_h5))
        ELSE Built(NoExc, Some(TimeSeries("TimeSeriesEEG")), Some(ts_idx),
                   Some([ts_h5 EXCEPT !.sensors = Some(UUID(sensors.gid))]))

ts_builder(tag, data_shape, topology, new_gid, store_ok) ==
    IF tag = TS_REGION
    THEN create_region_ts(data_shape, topology, new_gid, store_ok)
    ELSE create_eeg_ts(data_shape, topology, new_gid, store_ok)

\* as Transformed, with the transpose flag not honoured
TransformedFlagIgnored(a, transpose, slice) ==
    LET p == parse_slice(slice)
        g == GetItem(a, p.index)
    IN  IF slice = <<>> THEN [exc |-> NoExc, data |-> a]
        ELSE IF ~p.ok THEN [exc |-> ParseException("invalid slice"), data |-> a]
        ELSE IF g.exc = "IndexError" THEN [exc |-> IndexError("index"), data |-> a]
        ELSE IF g.exc = "ValueError" THEN [exc |-> ValueError("slice step cannot be zero"), data |-> a]
        ELSE [exc |-> NoExc, data |-> g.arr]

\* as Transformed, with the slice taken before the transpose
TransformedSliceFirst(a, transpose, slice) ==
    LET p == parse_slice(slice)
        g == GetItem(a, p.index)
        T(x) == IF transpose THEN ArrayT(x) ELSE x
    IN  IF slice = <<>> THEN [exc |-> NoExc, data |-> T(a)]
        ELSE IF ~p.ok THEN [exc |-> ParseException("invalid slice"), data |-> a]
        ELSE IF g.exc = "IndexError" THEN [exc |-> IndexError("index"), data |-> a]
        ELSE IF g.exc = "ValueError" THEN [exc |-> ValueError("slice step cannot be zero"), data |-> a]
        ELSE [exc |-> NoExc, data |-> T(g.arr)]

\* lines 182-185 of launch: transpose, then slice
Transformed(a, transpose, slice) ==
    LET t == IF transpose THEN ArrayT(a) ELSE a
        p == parse_slice(slice)
        g == GetItem(t, p.index)
    IN  IF slice = <<>> THEN [exc |-> NoExc, data |-> t]
        ELSE IF ~p.ok THEN [exc |-> ParseException("invalid slice"), data |-> t]
        ELSE IF g.exc = "IndexError" THEN [exc |-> IndexError("index"), data |-> t]
        ELSE IF g.exc = "ValueError" THEN [exc |-> ValueError("slice step cannot be zero"), data |-> t]
        ELSE [exc |-> NoExc, data |-> g.arr]

\* numpy.r_[:n] * sample_period
TimeAxis(n, sample_period) == [i \in 1..n |-> RatMulInt(i - 1, sample_period)]

(***************************************************************************)
(* State.                                                                  *)
(***************************************************************************)
VARIABLES
    tstype,      \* class attribute of the importer: which builder is used
    pc,          \* position of the running launch
    launches,    \* launches started so far
    req,         \* arguments of the running launch
    data,        \* local data
    ts,          \* local ts
    ts_idx,      \* local ts_idx
    ts_h5,       \* local ts_h5: position of the container in files, 0 when unbound
    data_shape,  \* local data_shape (read back from the container)
    files,       \* the H5 containers created in the storage path
    caught,      \* exception bound by the except clause
    log,         \* what self.log.exception recorded
    error,       \* the exception that left launch
    raised_in,   \* the step whose exception ended the launch
    result,      \* the value launch returned
    next_gid,    \* source of fresh gids
    first        \* request, outcome and container count of the first launch, once a
                 \* second was started

vars == <<tstype, pc, launches, req, data, ts, ts_idx, ts_h5, data_shape,
          files, caught, log, error, raised_in, result, next_gid, first>>

locals == <<data, ts, ts_idx, ts_h5, data_shape>>

NoRequest == [none |-> TRUE]

Init ==
    /\ tstype \in {TS_REGION, TS_EEG}
    /\ pc = "idle"
    /\ launches = 0
    /\ req = NoRequest
    /\ data = None /\ ts = None /\ ts_idx = None /\ ts_h5 = 0 /\ data_shape = None
    /\ files = <<>>
    /\ caught = None
    /\ log = <<>>
    /\ error = NoExc
    /\ raised_in = ""
    /\ result = None
    /\ next_gid = 1
    /\ first = None

\* an exception leaves the try body at `step`: the except clause takes a
\* ParseException, anything else leaves launch
Throw(e, step) ==
    /\ raised_in' = step
    /\ IF e.type = "ParseException"
       THEN pc' = "except" /\ caught' = Some(e) /\ UNCHANGED error
       ELSE pc' = "raised" /\ error' = e /\ UNCHANGED caught

Continue(next) == pc' = next /\ UNCHANGED <<error, caught, raised_in>>

(***************************************************************************)
(* launch, step by step.  The @transactional wrapper of launch (line 175)  *)
(* is outside the model: no step below depends on it, and no property      *)
(* relies on it undoing a write.                                           *)
(***************************************************************************)
Launch ==
    /\ pc = "idle"
    /\ \E shape \in InputShapes, lk \in Lookups, tr \in BOOLEAN, sl \in SliceExprs,
          rate \in SamplingRates, topo \in Topologies :
          req' = [data_file         |-> [name |-> "ts", path |-> "", array |-> MkArray(shape)],
                  dataset_name      |-> lk[1],
                  structure_path    |-> lk[2],
                  transpose         |-> tr,
                  slice             |-> sl,
                  sampling_rate     |-> rate,
                  start_time        |-> 0,
                  tstype_parameters |-> topo]
    /\ pc' = "read"
    /\ launches' = launches + 1
    /\ UNCHANGED <<tstype, locals, files, caught, log, error, raised_in, result, next_gid, first>>

\* line 180
ReadFile ==
    /\ pc = "read"
    /\ LET r == read_nested_mat_file(req.data_file, req.dataset_name, req.structure_path)
       IN  IF r.exc = NoExc
           THEN data' = r.data /\ Continue("transform")
           ELSE UNCHANGED data /\ Throw(r.exc, "read")
    /\ UNCHANGED <<tstype, launches, req, ts, ts_idx, ts_h5, data_shape, files,
                   log, result, next_gid, first>>

\* lines 182-185
Transform ==
    /\ pc = "transform"
    /\ LET r == Transformed(data[1], req.transpose, req.slice)
       IN  IF r.exc = NoExc
           THEN data' = Some(r.data) /\ Continue("build")
           ELSE UNCHANGED data /\ Throw(r.exc, "transform")
    /\ UNCHANGED <<tstype, launches, req, ts, ts_idx, ts_h5, data_shape, files,
                   log, result, next_gid, first>>

\* line 187
Build ==
    /\ pc = "build"
    /\ \E store_ok \in BOOLEAN :
       LET b == ts_builder(tstype, data[1].shape, req.tstype_parameters, next_gid, store_ok)
       IN  /\ IF b.ts_h5 # None
              THEN files' = Append(files, b.ts_h5[1]) /\ next_gid' = next_gid + 1
              ELSE UNCHANGED <<files, next_gid>>
           /\ IF b.exc = NoExc
              THEN /\ ts' = b.ts /\ ts_idx' = b.ts_idx /\ ts_h5' = Len(files) + 1
                   /\ Continue("write_time")
              ELSE /\ UNCHANGED <<ts, ts_idx, ts_h5>>
                   /\ Throw(b.exc, "build")
    /\ UNCHANGED <<tstype, launches, req, data, data_shape, log, result, first>>

\* lines 189-192
WriteTime ==
    /\ pc = "write_time"
    /\ ts' = Some([ts[1] EXCEPT !.start_time = req.start_time, !.sample_period_unit = "s"])
    /\ \/ UNCHANGED files /\ Throw(StorageError("write_time_slice"), "time")
       \/ /\ files' = [files EXCEPT ![ts_h5].time =
                            Some(TimeAxis(data[1].shape[1], ts[1].sample_period))]
            /\ Continue("write_data")
    /\ UNCHANGED <<tstype, launches, req, data, ts_idx, ts_h5, data_shape,
                   log, result, next_gid, first>>

\* line 195
WriteData ==
    /\ pc = "write_data"
    /\ \/ UNCHANGED files /\ Throw(StorageError("write_data_slice"), "data")
       \/ /\ files' = [files EXCEPT ![ts_h5].data = Some(Canonical(data[1]))]
            /\ Continue("store_meta")
    /\ UNCHANGED <<tstype, launches, req, locals, log, result, next_gid, first>>

\* lines 197-207
StoreMeta ==
    /\ pc = "store_meta"
    /\ data_shape' = Some(files[ts_h5].data[1].shape)
    /\ \/ UNCHANGED files /\ Throw(StorageError("store"), "meta")
       \/ /\ files' = [files EXCEPT ![ts_h5] =
                  [@ EXCEPT !.nr_dimensions      = Some(Len(data_shape'[1])),
                            !.gid                = Some(UUID(ts_idx[1].gid)),
                            !.sample_period      = Some(ts[1].sample_period),
                            !.sample_period_unit = Some(ts[1].sample_period_unit),
                            !.sample_rate        = Some(ts[1].sample_rate),
                            !.start_time         = Some(ts[1].start_time),
                            !.labels_ordering    = Some(ts[1].labels_ordering),
                            !.labels_dimensions  = Some(ts[1].labels_dimensions),
                            !.title              = Some(ts[1].title),
                            !.open               = FALSE]]
            /\ Continue("fill_index")
    /\ UNCHANGED <<tstype, launches, req, data, ts, ts_idx, ts_h5,
                   log, result, next_gid, first>>

\* as FillIndex, with data_ndim taken from the array in memory, not the shape read back
FillIndexMemoryNdim ==
    /\ pc = "fill_index"
    /\ LET meta == prepare_array_shape_meta(data_shape[1])
           idx  == [ts_idx[1] EXCEPT
                      !.title              = Some(ts[1].title),
                      !.time_series_type   = Some(ts[1].type),
                      !.sample_period_unit = Some(ts[1].sample_period_unit),
                      !.sample_period      = Some(ts[1].sample_period),
                      !.sample_rate        = Some(ts[1].sample_rate),
                      !.labels_dimensions  = Some(JsonDict(ts[1].labels_dimensions)),
                      !.labels_ordering    = Some(JsonList(ts[1].labels_ordering)),
                      !.data_ndim          = Some(Len(data[1].shape)),
                      !.data_length_1d     = meta[1],
                      !.data_length_2d     = meta[2],
                      !.data_length_3d     = meta[3],
                      !.data_length_4d     = meta[4]]
       IN  ts_idx' = Some(idx) /\ result' = Some(idx)
    /\ pc' = "done"
    /\ UNCHANGED <<tstype, launches, req, data, ts, ts_h5, data_shape, files,
                   caught, log, error, raised_in, next_gid, first>>

\* lines 209-220
FillIndex ==
    /\ pc = "fill_index"
    /\ LET meta == prepare_array_shape_meta(data_shape[1])
           idx  == [ts_idx[1] EXCEPT
                      !.title              = Some(ts[1].title),
                      !.time_series_type   = Some(ts[1].type),
                      !.sample_period_unit = Some(ts[1].sample_period_unit),
                      !.sample_period      = Some(ts[1].sample_period),
                      !.sample_rate        = Some(ts[1].sample_rate),
                      !.labels_dimensions  = Some(JsonDict(ts[1].labels_dimensions)),
                      !.labels_ordering    = Some(JsonList(ts[1].labels_ordering)),
                      !.data_ndim          = Some(Len(data_shape[1])),
                      !.data_length_1d     = meta[1],
                      !.data_length_2d     = meta[2],
                      !.data_length_3d     = meta[3],
                      !.data_length_4d     = meta[4]]
       IN  ts_idx' = Some(idx) /\ result' = Some(idx)
    /\ pc' = "done"
    /\ UNCHANGED <<tstype, launches, req, data, ts, ts_h5, data_shape, files,
                   caught, log, error, raised_in, next_gid, first>>

\* as ExceptLog, with nothing logged
ExceptLogSkipped ==
    /\ pc = "except"
    /\ pc' = "except_raise"
    /\ UNCHANGED <<tstype, launches, req, locals, files, caught, log, error,
                   raised_in, result, next_gid, first>>

\* line 222
ExceptLog ==
    /\ pc = "except"
    /\ log' = Append(log, caught[1])
    /\ pc' = "except_raise"
    /\ UNCHANGED <<tstype, launches, req, locals, files, caught, error,
                   raised_in, result, next_gid, first>>

\* line 223
ExceptRaise ==
    /\ pc = "except_raise"
    /\ error' = LaunchException(caught[1])
    /\ pc' = "raised"
    /\ UNCHANGED <<tstype, launches, req, locals, files, caught, log,
                   raised_in, result, next_gid, first>>

\* what a finished launch leaves behind, gids aside; storage names the storage
\* call that failed in it, if one did
Outcome ==
    [error   |-> error,
     storage |-> IF error.type = "StorageError" THEN raised_in ELSE "none",
     data  |-> IF ts_h5 # 0 THEN files[ts_h5].data ELSE None,
     time  |-> IF ts_h5 # 0 THEN files[ts_h5].time ELSE None,
     shape |-> IF result # None
               THEN <<result[1].data_length_1d, result[1].data_length_2d,
                      result[1].data_length_3d, result[1].data_length_4d>>
               ELSE <<>>]

\* the importer is launched a second time on the same file with the array stored
\* the other way round and the transpose flag flipped; all else as before
LaunchTransposed ==
    /\ pc \in {"done", "raised"}
    /\ launches = 1
    /\ first' = Some([req |-> req, outcome |-> Outcome, files |-> Len(files)])
    /\ req' = [req EXCEPT !.transpose = ~@, !.data_file.array = ArrayT(@)]
    /\ launches' = 2
    /\ pc' = "read"
    /\ data' = None /\ ts' = None /\ ts_idx' = None /\ ts_h5' = 0 /\ data_shape' = None
    /\ caught' = None /\ error' = NoExc /\ raised_in' = "" /\ result' = None
    /\ UNCHANGED <<tstype, files, log, next_gid>>

Next ==
    \/ Launch
    \/ ReadFile
    \/ Transform
    \/ Build
    \/ WriteTime
    \/ WriteData
    \/ StoreMeta
    \/ FillIndex
    \/ ExceptLog
    \/ ExceptRaise
    \/ LaunchTransposed

Spec == Init /\ [][Next]_vars
(***************************************************************************)
(* Vocabulary of the properties.                                           *)
(***************************************************************************)
Finished == pc \in {"done", "raised"}

\* transpose and slice have both been applied to data
AfterTransform ==
    \/ pc \in {"build", "write_time", "write_data", "store_meta", "fill_index", "done"}
    \/ pc = "raised" /\ raised_in \notin {"read", "transform"}

\* the array held by the .mat file
FileArray == req.data_file.array

\* the topology is of the kind the configured builder reads a channel count from
HasChannelCount ==
    \/ tstype = TS_REGION /\ req.tstype_parameters.kind = "Connectivity"
    \/ tstype = TS_EEG /\ req.tstype_parameters.kind = "Sensors"

ChannelCount ==
    IF tstype = TS_REGION
    THEN req.tstype_parameters.number_of_regions
    ELSE req.tstype_parameters.number_of_sensors

\* containers created by the running launch
CreatedNow == Len(files) - (IF first = None THEN 0 ELSE first[1].files)

ShapeSlots ==
    <<result[1].data_length_1d, result[1].data_length_2d,
      result[1].data_length_3d, result[1].data_length_4d>>

Slice_1_3_All == <<"1", ":", "3", ",", ":">>

(***************************************************************************)
(* Properties.                                                             *)
(***************************************************************************)

\* C1: a successful launch whose (time, channel) array has shape (T, C) has C equal
\* to the channel count of the topology, persists data of shape (T, 1, C, 1) and
\* returns an index whose four shape slots are T, 1, C, 1, taken from the shape
\* read back from the container; with no transpose and no slice (T, C) is the
\* shape of the array in the file.  Axes 2 and 4 of any persisted array are 1.
C1_RoundTripShape ==
    pc = "done" =>
        LET stored == files[ts_h5].data[1].shape
            T      == data[1].shape[1]
            C      == data[1].shape[2]
        IN  /\ stored[2] = 1 /\ stored[4] = 1
            /\ data_shape = Some(stored)
            /\ Len(data[1].shape) = 2 =>
                  /\ C = ChannelCount
                  /\ stored = <<T, 1, C, 1>>
                  /\ ShapeSlots = <<Some(T), Some(1), Some(C), Some(1)>>
                  /\ (~req.transpose /\ req.slice = <<>>) => FileArray.shape = <<T, C>>

C1_Witness ==
    /\ pc = "done"
    /\ ~req.transpose /\ req.slice = <<>>
    /\ FileArray.shape = <<2, 3>>
    /\ ShapeSlots = <<Some(2), Some(1), Some(3), Some(1)>>

\* C2: when the channel axis of the array after transpose and slice differs from
\* the channel count of the topology, the launch gets no further than the builder
\* and ends in a LaunchException that carries the observed and the expected count,
\* with no container created, no handle bound and no index returned.
C2_ChannelMismatchRejected ==
    (/\ AfterTransform
     /\ Len(data[1].shape) >= 2
     /\ HasChannelCount
     /\ ChannelCount # data[1].shape[2])
    => /\ pc \in {"build", "raised"}
       /\ CreatedNow = 0
       /\ ts_h5 = 0
       /\ result = None
       /\ pc = "raised" =>
             /\ error.type = "LaunchException"
             /\ error.args = <<data[1].shape[2], ChannelCount>>

C2_Witness ==
    /\ pc = "raised" /\ raised_in = "build"
    /\ HasChannelCount
    /\ data[1].shape = <<3, 2>>
    /\ ChannelCount = 3
    /\ error.args = <<2, 3>>

\* C3: when the reader fails with a parse error the error is logged before anything
\* is raised, and what leaves launch is a LaunchException wrapping that parse
\* error; no container was created, no handle bound and no index returned.
C3_ParseFailureWrapped ==
    /\ pc = "except_raise" => (log # <<>> /\ log[Len(log)] = caught[1])
    /\ (pc \in {"except", "except_raise", "raised"} /\ raised_in = "read") =>
          /\ CreatedNow = 0 /\ ts_h5 = 0 /\ result = None
          /\ caught # None /\ caught[1].type = "ParseException"
          /\ pc = "raised" =>
                /\ error = LaunchException(caught[1])
                /\ \E k \in 1..Len(log) : log[k] = caught[1]

C3_Witness ==
    /\ pc = "raised" /\ raised_in = "read"
    /\ req.dataset_name = "missing"
    /\ error.type = "LaunchException"
    /\ error.cause # None

\* C4: after a successful launch the sample period on the index and in the
\* container is 1 / sampling_rate, and the stored time axis has one entry per
\* time sample, entry i being i times the sample period.
C4_SamplePeriodFromRate ==
    pc = "done" =>
        LET f == files[ts_h5]
            p == result[1].sample_period[1]
        IN  /\ f.sample_period = result[1].sample_period
            /\ p.num * req.sampling_rate = p.den
            /\ Len(f.time[1]) = data[1].shape[1]
            /\ \A i \in 1..Len(f.time[1]) :
                  f.time[1][i].num * p.den = (i - 1) * p.num * f.time[1][i].den

\* C5: a launch on A with the transpose flag b and a launch on A.T with the flag
\* not b, all else equal and the storage failing at the same call or not at all,
\* end alike: same error, same persisted array and time axis, same shape slots.
C5_TransposeEquivalence ==
    (/\ Finished
     /\ launches = 2
     /\ Outcome.storage = first[1].outcome.storage)
    => Outcome = first[1].outcome

C5_Witness ==
    /\ pc = "done"
    /\ launches = 2
    /\ first[1].req.transpose
    /\ first[1].req.data_file.array.shape = <<3, 2>>
    /\ Outcome = first[1].outcome
    /\ Outcome.data[1].shape = <<2, 1, 3, 1>>

\* C6: the array the builder and the reshape see is the file's array transposed
\* (if asked) and then sliced; with shape (4, 3), no transpose and slice "1:3,:"
\* the time axis has length 2; with transpose and that slice on an r x c matrix,
\* c >= 3, the array is 2 x r and its entry (i, j) is entry (j, i + 1) of the file.
C6_SliceAfterTranspose ==
    AfterTransform =>
        LET t == IF req.transpose THEN ArrayT(FileArray) ELSE FileArray
        IN  /\ req.slice = <<>> => data[1] = t
            /\ req.slice # <<>> => data[1] = GetItem(t, parse_slice(req.slice).index).arr
            /\ (~req.transpose /\ req.slice = Slice_1_3_All /\ FileArray.shape = <<4, 3>>) =>
                  /\ data[1].shape = <<2, 3>>
                  /\ pc = "done" => files[ts_h5].data[1].shape[1] = 2
            /\ (/\ req.transpose /\ req.slice = Slice_1_3_All
                /\ Len(FileArray.shape) = 2 /\ FileArray.shape[2] >= 3) =>
                  /\ data[1].shape = <<2, FileArray.shape[1]>>
                  /\ \A i \in 0..1, j \in 0..(FileArray.shape[1] - 1) :
                        data[1].val[<<i, j>>] = FileArray.val[<<j, i + 1>>]

C6_Witness ==
    /\ pc = "done"
    /\ req.transpose /\ req.slice = Slice_1_3_All
    /\ FileArray.shape = <<3, 3>>
    /\ files[ts_h5].data[1].shape = <<2, 1, 3, 1>>
    /\ files[ts_h5].data[1].val[<<0, 0, 2, 0>>] = FileArray.val[<<2, 1>>]

\* C7: every exception that leaves launch is a LaunchException.
C7_OnlyLaunchExceptionLeaves ==
    pc = "raised" => error.type = "LaunchException"

\* C8: when launch has ended, by return or by exception, no container opened by a
\* builder is still open.
C8_HandleClosedAtEnd ==
    Finished => \A k \in 1..Len(files) : ~files[k].open

\* C9: given a topology of the kind the builder expects and a storage that does
\* not fail, an array that after transpose and slice has fewer than two axes or
\* an empty axis is rejected by a LaunchException (dimension mismatch) or a
\* validation error before anything is created or written.
C9_DegenerateArrayRejected ==
    (/\ AfterTransform
     /\ HasChannelCount
     /\ error.type # "StorageError"
     /\ \/ Len(data[1].shape) < 2
        \/ \E k \in 1..Len(data[1].shape) : data[1].shape[k] = 0)
    => /\ pc \in {"build", "raised"}
       /\ CreatedNow = 0
       /\ pc = "raised" => error.type \in {"LaunchException", "ValueError"}

\* C10: after a successful launch the index and the container describe the same
\* series: the container's gid is the index's gid, which keyed its path; title,
\* sample period, unit ('s') and sample rate agree; data_ndim is the number of
\* axes of the shape read back; the container's topology reference is the
\* index's connectivity_gid or sensors_gid, that of the topology given.
C10_IndexMirrorsContainer ==
    pc = "done" =>
        LET f == files[ts_h5]
            r == result[1]
        IN  /\ f.gid = Some(UUID(r.gid))
            /\ f.path_gid = r.gid
            /\ r.title = f.title /\ r.title # None
            /\ r.sample_period = f.sample_period /\ r.sample_period # None
            /\ r.sample_period_unit = Some("s")
            /\ f.sample_period_unit = Some("s")
            /\ r.sample_rate = f.sample_rate /\ r.sample_rate # None
            /\ r.data_ndim = Some(Len(f.data[1].shape))
            /\ r.data_ndim = f.nr_dimensions
            /\ tstype = TS_REGION =>
                  /\ r.connectivity_gid = Some(req.tstype_parameters.gid)
                  /\ f.connectivity = Some(UUID(r.connectivity_gid[1]))
            /\ tstype = TS_EEG =>
                  /\ r.sensors_gid = Some(req.tstype_parameters.gid)
                  /\ f.sensors = Some(UUID(r.sensors_gid[1]))

C10_Witness ==
    /\ pc = "done"
    /\ launches = 2
    /\ tstype = TS_EEG
    /\ result[1].gid = 2
    /\ files[ts_h5].gid = Some(UUID(2))
    /\ files[ts_h5].sensors = Some(UUID(203))
====
